---- MODULE Spec2Model ----
(***************************************************************************)
(* Model of lib/settings.cpp (cppcheck): the platform ABI table and its    *)
(* descriptor loader, the --enable parser, the compile-command importer    *)
(* and the Visual Studio project importer.                                 *)
(*                                                                         *)
(* std::string values are sequences of one-character strings; positions    *)
(* are 0-based as in the C++ code (character at position p is s[p + 1]).   *)
(***************************************************************************)
EXTENDS Integers, Sequences, FiniteSets, TLC

VARIABLES
    \* ---- Settings: platform fields
    host,               \* the ABI of the machine the program was built on
    platformType,
    sizeof_bool, sizeof_short, sizeof_int, sizeof_long, sizeof_long_long,
    sizeof_float, sizeof_double, sizeof_long_double, sizeof_wchar_t,
    sizeof_size_t, sizeof_pointer,
    defaultSign, char_bit,
    short_bit, int_bit, long_bit, long_long_bit,
    platformCall,       \* the last platform()/platformFile() call and its result
    descriptor,         \* the platform descriptor about to be loaded, if any
    \* ---- Settings: enabled checks
    checkInternal,      \* whether the build defines CHECK_INTERNAL
    _enabled,
    enabledCall,        \* the last addEnabled() call: argument, set before, result
    \* ---- Settings: imported file settings
    fileSettings,
    importCall,         \* the last import call: its input and the records before it
    project,            \* the .vcxproj document about to be imported, if any
    \* ---- the command line scan of importCompileCommands, applied to one command
    command, scanned,
    \* ---- ItemDefinitionGroup::conditionIsTrue, statement by statement
    condition, p, c, pos, cpc, cret

platformVars == <<host, platformType, sizeof_bool, sizeof_short, sizeof_int,
                  sizeof_long, sizeof_long_long, sizeof_float, sizeof_double,
                  sizeof_long_double, sizeof_wchar_t, sizeof_size_t,
                  sizeof_pointer, defaultSign, char_bit, short_bit, int_bit,
                  long_bit, long_long_bit, platformCall, descriptor>>
enabledVars == <<checkInternal, _enabled, enabledCall>>
importVars == <<fileSettings, importCall, project>>
scanVars == <<command, scanned>>
condVars == <<condition, p, c, pos, cpc, cret>>
vars == <<platformVars, enabledVars, importVars, scanVars, condVars>>

----------------------------------------------------------------------------
(* std::string operations *)

npos == -1

\* whether pat occurs in s at 0-based position at
MatchAt(s, pat, at) ==
    /\ at + Len(pat) <= Len(s)
    /\ \A k \in 1..Len(pat) : s[at + k] = pat[k]

\* s.find(pat, from)
Find(s, pat, from) ==
    LET hits == {at \in from..(Len(s) - Len(pat)) : MatchAt(s, pat, at)}
    IN  IF hits = {} THEN npos
        ELSE CHOOSE at \in hits : \A other \in hits : at <= other

Min(a, b) == IF a <= b THEN a ELSE b

\* s.substr(from, n), for from <= s.size()
Substr(s, from, n) == SubSeq(s, from + 1, Min(from + n, Len(s)))

\* s.substr(from)
SubstrFrom(s, from) == SubSeq(s, from + 1, Len(s))

None == "none"

----------------------------------------------------------------------------
(* Platform ABI model: Settings::Settings, platform(), platformFile() *)

PlatformTypes == {"Unspecified", "Native", "Win32A", "Win32W", "Win64",
                  "Unix32", "Unix64"}

\* '\0'
NUL == "NUL"

Widths(b, s, i, l, ll, f, d, ld, w, sz, ptr) ==
    [sizeof_bool |-> b, sizeof_short |-> s, sizeof_int |-> i, sizeof_long |-> l,
     sizeof_long_long |-> ll, sizeof_float |-> f, sizeof_double |-> d,
     sizeof_long_double |-> ld, sizeof_wchar_t |-> w, sizeof_size_t |-> sz,
     sizeof_pointer |-> ptr]

\* The machines the program is built on: what sizeof(...) yields there, whether
\* plain char is signed there, and which of _WIN64/_WIN32 the compiler defines.
HostABIs ==
    { [os |-> "unix", charSigned |-> TRUE,
       sz |-> Widths(1, 2, 4, 8, 8, 4, 8, 16, 4, 8, 8)],
      [os |-> "unix", charSigned |-> FALSE,
       sz |-> Widths(1, 2, 4, 8, 8, 4, 8, 16, 4, 8, 8)],
      [os |-> "win64", charSigned |-> TRUE,
       sz |-> Widths(1, 2, 4, 4, 8, 4, 8, 8, 2, 8, 8)],
      [os |-> "win32", charSigned |-> TRUE,
       sz |-> Widths(1, 2, 4, 4, 8, 4, 8, 8, 2, 4, 4)] }

\* The fields one case of the switch in platform() assigns, before the
\* derived bit widths.
PlatformTable(type, h) ==
    CASE type = "Unspecified" -> [sz |-> h.sz, defaultSign |-> NUL]
      [] type = "Native" ->
            [sz |-> h.sz, defaultSign |-> IF h.charSigned THEN "s" ELSE "u"]
      [] type \in {"Win32W", "Win32A"} ->
            [sz |-> Widths(1, 2, 4, 4, 8, 4, 8, 8, 2, 4, 4), defaultSign |-> NUL]
      [] type = "Win64" ->
            [sz |-> Widths(1, 2, 4, 4, 8, 4, 8, 8, 2, 8, 8), defaultSign |-> NUL]
      [] type = "Unix32" ->
            [sz |-> Widths(1, 2, 4, 4, 8, 4, 8, 12, 4, 4, 4), defaultSign |-> NUL]
      [] type = "Unix64" ->
            [sz |-> Widths(1, 2, 4, 8, 8, 4, 8, 16, 4, 8, 8), defaultSign |-> NUL]

\* the state platform(type) leaves, for a type of the enumeration
PlatformAssign(type, h) ==
    LET t == PlatformTable(type, h) IN
    /\ platformType' = type
    /\ sizeof_bool' = t.sz.sizeof_bool
    /\ sizeof_short' = t.sz.sizeof_short
    /\ sizeof_int' = t.sz.sizeof_int
    /\ sizeof_long' = t.sz.sizeof_long
    /\ sizeof_long_long' = t.sz.sizeof_long_long
    /\ sizeof_float' = t.sz.sizeof_float
    /\ sizeof_double' = t.sz.sizeof_double
    /\ sizeof_long_double' = t.sz.sizeof_long_double
    /\ sizeof_wchar_t' = t.sz.sizeof_wchar_t
    /\ sizeof_size_t' = t.sz.sizeof_size_t
    /\ sizeof_pointer' = t.sz.sizeof_pointer
    /\ defaultSign' = t.defaultSign
    /\ char_bit' = 8
    /\ short_bit' = 8 * t.sz.sizeof_short
    /\ int_bit' = 8 * t.sz.sizeof_int
    /\ long_bit' = 8 * t.sz.sizeof_long
    /\ long_long_bit' = 8 * t.sz.sizeof_long_long

\* bool Settings::platform(PlatformType type); a value outside the
\* enumeration reaches the final return false and assigns nothing.
platform(type) ==
    /\ IF type \in PlatformTypes
       THEN PlatformAssign(type, host)
       ELSE UNCHANGED <<platformType, sizeof_bool, sizeof_short, sizeof_int,
                        sizeof_long, sizeof_long_long, sizeof_float,
                        sizeof_double, sizeof_long_double, sizeof_wchar_t,
                        sizeof_size_t, sizeof_pointer, defaultSign, char_bit,
                        short_bit, int_bit, long_bit, long_long_bit>>
    /\ platformCall' = [op |-> "platform", ret |-> (type \in PlatformTypes)]
    /\ UNCHANGED host

\* the platform the constructor selects: Win64 under _WIN64, Win32A under
\* _WIN32, Native otherwise
ConstructorPlatform(h) ==
    CASE h.os = "win64" -> "Win64"
      [] h.os = "win32" -> "Win32A"
      [] OTHER -> "Native"

IsDigit(ch) == ch \in {"0", "1", "2", "3", "4", "5", "6", "7", "8", "9"}

DigitValue(ch) ==
    CASE ch = "0" -> 0 [] ch = "1" -> 1 [] ch = "2" -> 2 [] ch = "3" -> 3
      [] ch = "4" -> 4 [] ch = "5" -> 5 [] ch = "6" -> 6 [] ch = "7" -> 7
      [] ch = "8" -> 8 [] ch = "9" -> 9

RECURSIVE AtoiDigits(_, _, _)
AtoiDigits(s, at, acc) ==
    IF at <= Len(s) /\ IsDigit(s[at])
    THEN AtoiDigits(s, at + 1, 10 * acc + DigitValue(s[at]))
    ELSE acc

RECURSIVE SkipSpaces(_, _)
SkipSpaces(s, at) ==
    IF at <= Len(s) /\ s[at] = " " THEN SkipSpaces(s, at + 1) ELSE at

\* std::atoi: leading blanks, an optional sign, then the leading digits;
\* 0 when there are none
atoi(s) ==
    LET at == SkipSpaces(s, 1) IN
    IF at <= Len(s) /\ s[at] = "-" THEN 0 - AtoiDigits(s, at + 1, 0)
    ELSE IF at <= Len(s) /\ s[at] = "+" THEN AtoiDigits(s, at + 1, 0)
    ELSE AtoiDigits(s, at, 0)

\* One iteration of the inner loop of platformFile (lines 294-315) for the
\* child sz of the sizeof element node.  Every comparison and every GetText()
\* in that loop is made on node, the sizeof element itself, never on sz.
SizeofChild(st, node, sz) ==
    IF node.name = "short" THEN [st EXCEPT !.sizeof_short = atoi(node.text)]
    ELSE IF node.name = "int" THEN [st EXCEPT !.sizeof_int = atoi(node.text)]
    ELSE IF node.name = "long" THEN [st EXCEPT !.sizeof_long = atoi(node.text)]
    ELSE IF node.name = "long-long"
         THEN [st EXCEPT !.sizeof_long_long = atoi(node.text)]
    ELSE IF node.name = "float" THEN [st EXCEPT !.sizeof_float = atoi(node.text)]
    ELSE IF node.name = "double" THEN [st EXCEPT !.sizeof_double = atoi(node.text)]
    ELSE IF node.name = "long-double"
         THEN [st EXCEPT !.sizeof_long_double = atoi(node.text)]
    ELSE IF node.name = "pointer" THEN [st EXCEPT !.sizeof_pointer = atoi(node.text)]
    ELSE IF node.name = "size_t" THEN [st EXCEPT !.sizeof_size_t = atoi(node.text)]
    ELSE IF node.name = "wchar_t" THEN [st EXCEPT !.sizeof_wchar_t = atoi(node.text)]
    ELSE st

RECURSIVE SizeofChildren(_, _, _)
SizeofChildren(st, node, k) ==
    IF k > Len(node.children) THEN st
    ELSE SizeofChildren(SizeofChild(st, node, node.children[k]), node, k + 1)

\* One iteration of the outer loop of platformFile (lines 288-317).
DescriptorNode(st, node) ==
    IF node.name = "default-sign" THEN [st EXCEPT !.defaultSign = node.text[1]]
    ELSE IF node.name = "char_bit" THEN [st EXCEPT !.char_bit = atoi(node.text)]
    ELSE IF node.name = "sizeof" THEN SizeofChildren(st, node, 1)
    ELSE st

RECURSIVE DescriptorNodes(_, _, _)
DescriptorNodes(st, nodes, k) ==
    IF k > Len(nodes) THEN st
    ELSE DescriptorNodes(DescriptorNode(st, nodes[k]), nodes, k + 1)

\* DerivedBits gone wrong: the long widths are derived with a fixed 8 bits
DerivedBitsFixedByte(cb, st) ==
    [short_bit |-> cb * st.sizeof_short, int_bit |-> cb * st.sizeof_int,
     long_bit |-> 8 * st.sizeof_long, long_long_bit |-> 8 * st.sizeof_long_long]

\* the derived bit widths platformFile assigns last (lines 319-322)
DerivedBits(cb, st) ==
    [short_bit |-> cb * st.sizeof_short, int_bit |-> cb * st.sizeof_int,
     long_bit |-> cb * st.sizeof_long, long_long_bit |-> cb * st.sizeof_long_long]

\* whether platformFile gets past its two early returns
DescriptorAccepted(doc) == doc.loads /\ doc.root # None /\ doc.root = "platform"

platformFields == <<platformType, sizeof_bool, sizeof_short, sizeof_int,
                    sizeof_long, sizeof_long_long, sizeof_float, sizeof_double,
                    sizeof_long_double, sizeof_wchar_t, sizeof_size_t,
                    sizeof_pointer, defaultSign, char_bit, short_bit, int_bit,
                    long_bit, long_long_bit>>

\* bool Settings::platformFile(const std::string &filename), doc being the
\* document the file holds
platformFile(doc) ==
    /\ IF DescriptorAccepted(doc)
       THEN LET st0 == [defaultSign |-> defaultSign, char_bit |-> char_bit,
                        sizeof_short |-> sizeof_short, sizeof_int |-> sizeof_int,
                        sizeof_long |-> sizeof_long,
                        sizeof_long_long |-> sizeof_long_long,
                        sizeof_float |-> sizeof_float,
                        sizeof_double |-> sizeof_double,
                        sizeof_long_double |-> sizeof_long_double,
                        sizeof_pointer |-> sizeof_pointer,
                        sizeof_size_t |-> sizeof_size_t,
                        sizeof_wchar_t |-> sizeof_wchar_t]
                st == DescriptorNodes(st0, doc.nodes, 1)
                bits == DerivedBits(st.char_bit, st)
            IN  /\ defaultSign' = st.defaultSign
                /\ char_bit' = st.char_bit
                /\ sizeof_short' = st.sizeof_short
                /\ sizeof_int' = st.sizeof_int
                /\ sizeof_long' = st.sizeof_long
                /\ sizeof_long_long' = st.sizeof_long_long
                /\ sizeof_float' = st.sizeof_float
                /\ sizeof_double' = st.sizeof_double
                /\ sizeof_long_double' = st.sizeof_long_double
                /\ sizeof_pointer' = st.sizeof_pointer
                /\ sizeof_size_t' = st.sizeof_size_t
                /\ sizeof_wchar_t' = st.sizeof_wchar_t
                /\ short_bit' = bits.short_bit
                /\ int_bit' = bits.int_bit
                /\ long_bit' = bits.long_bit
                /\ long_long_bit' = bits.long_long_bit
                /\ UNCHANGED <<platformType, sizeof_bool>>
       ELSE UNCHANGED platformFields
    /\ platformCall' = [op |-> "platformFile", ret |-> DescriptorAccepted(doc)]
    /\ UNCHANGED host

----------------------------------------------------------------------------
(* The platform descriptors handed to platformFile.  Every element a branch *)
(* reads the text of has a text (GetText() is not null).                    *)

MaxNodes == 2

Element(name, text, children) ==
    [name |-> name, text |-> text, children |-> children]

\* children naming the four primitives that have a derived bit width, and one
\* that names none
BitWidthChildPool ==
    { Element("short", <<"4">>, << >>), Element("int", <<"2">>, << >>),
      Element("long", <<"1","6">>, << >>), Element("long-long", <<"1","6">>, << >>),
      Element("char", <<"2">>, << >>) }

\* children naming every primitive of the descriptor format
SizeofChildPool ==
    BitWidthChildPool \cup
    { Element("float", <<"8">>, << >>), Element("double", <<"4">>, << >>),
      Element("long-double", <<"1","0">>, << >>), Element("pointer", <<"2">>, << >>),
      Element("size_t", <<"2">>, << >>), Element("wchar_t", <<"1">>, << >>) }

SeqsUpTo(S, n) == UNION {[1..k -> S] : k \in 0..n}

\* a sizeof element without children, with one child of the pool, or with
\* two children naming the same primitive
SizeofElements(pool) ==
    { Element("sizeof", << >>, <<child>>) : child \in pool }
    \cup { Element("sizeof", << >>, << >>),
            Element("sizeof", << >>, <<Element("short", <<"4">>, << >>),
                                    Element("short", <<"1">>, << >>)>>) }

PlainElements ==
    { Element("default-sign", <<"u">>, << >>), Element("char_bit", <<"1","6">>, << >>),
      Element("char_bit", <<" ","7","x">>, << >>) }

CountSizeof(nodes) == Cardinality({k \in 1..Len(nodes) : nodes[k].name = "sizeof"})

\* an unreadable file, an empty document, a document with another root, and
\* the platform documents with at most MaxNodes elements, one sizeof at most
DescriptorsOver(pool) ==
    { [loads |-> FALSE, root |-> None, nodes |-> << >>],
      [loads |-> TRUE, root |-> None, nodes |-> << >>],
      [loads |-> TRUE, root |-> "platforms", nodes |-> << >>] }
    \cup
    { [loads |-> TRUE, root |-> "platform", nodes |-> ns] :
        ns \in { s \in SeqsUpTo(PlainElements \cup SizeofElements(pool), MaxNodes) :
                    CountSizeof(s) <= 1 } }

Descriptors == DescriptorsOver(BitWidthChildPool)

AllDescriptors == DescriptorsOver(SizeofChildPool)

----------------------------------------------------------------------------
\* Settings::Settings() on the build host h: the fields platform() leaves
Constructed(h) ==
    LET type == ConstructorPlatform(h)
        t == PlatformTable(type, h) IN
    [platformType |-> type,
     sz |-> t.sz,
     defaultSign |-> t.defaultSign,
     char_bit |-> 8,
     short_bit |-> 8 * t.sz.sizeof_short,
     int_bit |-> 8 * t.sz.sizeof_int,
     long_bit |-> 8 * t.sz.sizeof_long,
     long_long_bit |-> 8 * t.sz.sizeof_long_long]

\* the build host of the specifications that do not exercise the platform
DefaultHost ==
    CHOOSE h \in HostABIs : h.os = "unix" /\ h.charSigned /\ h.sz.sizeof_long = 8


----------------------------------------------------------------------------
(* Enabled-check parser: Settings::addEnabled *)

sInternal == <<"i","n","t","e","r","n","a","l">>
sInformation == <<"i","n","f","o","r","m","a","t","i","o","n">>
sMissingInclude == <<"m","i","s","s","i","n","g","I","n","c","l","u","d","e">>
sAll == <<"a","l","l">>

\* the set id (lines 67-78); "internal" is a member under CHECK_INTERNAL only
id(withInternal) ==
    { <<"w","a","r","n","i","n","g">>, <<"s","t","y","l","e">>, <<"p","e","r","f","o","r","m","a","n","c","e">>, <<"p","o","r","t","a","b","i","l","i","t","y">>, sInformation,
      sMissingInclude, <<"u","n","u","s","e","d","F","u","n","c","t","i","o","n">> }
    \cup (IF withInternal THEN {sInternal} ELSE {})

ErrEmpty == <<"c","p","p","c","h","e","c","k",":"," ","-","-","e","n","a","b","l","e"," ","p","a","r","a","m","e","t","e","r"," ","i","s"," ","e","m","p","t","y">>

ErrUnknown(str) ==
    <<"c","p","p","c","h","e","c","k",":"," ","t","h","e","r","e"," ","i","s"," ","n","o"," ","-","-","e","n","a","b","l","e"," ","p","a","r","a","m","e","t","e","r"," ","w","i","t","h"," ","t","h","e"," ","n","a","m","e"," ","'">> \o str \o <<"'">>

\* AddEnabledOne gone wrong: "information" does not bring "missingInclude"
AddEnabledOneNoImplication(str, en, ids) ==
    IF str = sAll
    THEN [ret |-> << >>, enabled |-> en \cup (ids \ {sInternal})]
    ELSE IF str \in ids
    THEN [ret |-> << >>, enabled |-> en \cup {str}]
    ELSE IF str = << >>
    THEN [ret |-> ErrEmpty, enabled |-> en]
    ELSE [ret |-> ErrUnknown(str), enabled |-> en]

\* addEnabled on a string without a comma (lines 100-120): the returned
\* string and the set _enabled it leaves
AddEnabledOne(str, en, ids) ==
    IF str = sAll
    THEN [ret |-> << >>, enabled |-> en \cup (ids \ {sInternal})]
    ELSE IF str \in ids
    THEN [ret |-> << >>,
          enabled |-> en \cup {str}
                         \cup (IF str = sInformation THEN {sMissingInclude} ELSE {})]
    ELSE IF str = << >>
    THEN [ret |-> ErrEmpty, enabled |-> en]
    ELSE [ret |-> ErrUnknown(str), enabled |-> en]

\* std::string Settings::addEnabled(const std::string &str) (lines 80-121);
\* AddEnabledLoop is the while loop at line 86 entered with pos and prevPos
RECURSIVE AddEnabled(_, _, _), AddEnabledLoop(_, _, _, _, _)
AddEnabledLoop(str, from, prevPos, en, ids) ==
    LET at == Find(str, <<",">>, from) IN
    IF at # npos
    THEN IF at = prevPos
         THEN [ret |-> ErrEmpty, enabled |-> en]
         ELSE LET r == AddEnabled(Substr(str, prevPos, at - prevPos), en, ids) IN
              IF r.ret # << >> THEN r
              ELSE AddEnabledLoop(str, at + 1, at + 1, r.enabled, ids)
    ELSE IF prevPos >= Len(str)
         THEN [ret |-> ErrEmpty, enabled |-> en]
         ELSE AddEnabled(SubstrFrom(str, prevPos), en, ids)

AddEnabled(str, en, ids) ==
    IF Find(str, <<",">>, 0) # npos
    THEN AddEnabledLoop(str, 0, 0, en, ids)
    ELSE AddEnabledOne(str, en, ids)

addEnabled(str) ==
    LET r == AddEnabled(str, _enabled, id(checkInternal)) IN
    /\ _enabled' = r.enabled
    /\ enabledCall' = [op |-> "addEnabled", text |-> str, before |-> _enabled, ret |-> r.ret]
    /\ UNCHANGED checkInternal

----------------------------------------------------------------------------
(* Specification of the enabled-check parser: any sequence of addEnabled    *)
(* calls, in a build with or without CHECK_INTERNAL.                        *)

MaxSegments == 2

SegmentPool == { << >>, sAll, sInformation, <<"b","o","g","u","s">> }

RECURSIVE JoinComma(_)
JoinComma(segs) ==
    IF Len(segs) = 1 THEN segs[1]
    ELSE segs[1] \o <<",">> \o JoinComma(Tail(segs))

EnableTexts ==
    { JoinComma(segs) :
        segs \in UNION {[1..k -> SegmentPool] : k \in 1..MaxSegments} }
    \cup { sInternal, <<"x",",">>, <<"s","t","y","l","e",",","p","e","r","f","o","r","m","a","n","c","e">>, <<"u","n","u","s","e","d","F","u","n","c","t","i","o","n",",",",","w","a","r","n","i","n","g">> }

EnabledInit ==
    /\ host = DefaultHost
    /\ platformType = Constructed(host).platformType
    /\ sizeof_bool = Constructed(host).sz.sizeof_bool
    /\ sizeof_short = Constructed(host).sz.sizeof_short
    /\ sizeof_int = Constructed(host).sz.sizeof_int
    /\ sizeof_long = Constructed(host).sz.sizeof_long
    /\ sizeof_long_long = Constructed(host).sz.sizeof_long_long
    /\ sizeof_float = Constructed(host).sz.sizeof_float
    /\ sizeof_double = Constructed(host).sz.sizeof_double
    /\ sizeof_long_double = Constructed(host).sz.sizeof_long_double
    /\ sizeof_wchar_t = Constructed(host).sz.sizeof_wchar_t
    /\ sizeof_size_t = Constructed(host).sz.sizeof_size_t
    /\ sizeof_pointer = Constructed(host).sz.sizeof_pointer
    /\ defaultSign = Constructed(host).defaultSign
    /\ char_bit = Constructed(host).char_bit
    /\ short_bit = Constructed(host).short_bit
    /\ int_bit = Constructed(host).int_bit
    /\ long_bit = Constructed(host).long_bit
    /\ long_long_bit = Constructed(host).long_long_bit
    /\ platformCall = [op |-> "Settings", ret |-> TRUE]
    /\ descriptor = None
    /\ fileSettings = << >>
    /\ importCall = [op |-> None]
    /\ project = [loads |-> FALSE, root |-> << >>]
    /\ command = << >>
    /\ scanned = [op |-> None]
    /\ condition = << >>
    /\ p = [configuration |-> << >>, platform |-> << >>]
    /\ c = << >>
    /\ pos = 0
    /\ cpc = "idle"
    /\ cret = FALSE
    /\ checkInternal \in BOOLEAN
    /\ _enabled = {}
    /\ enabledCall = [op |-> None]

NextEnabled ==
    /\ \E text \in EnableTexts : addEnabled(text)
    /\ UNCHANGED <<platformVars, importVars, scanVars, condVars>>

\* the comma-separated segments of a text, left to right
RECURSIVE SortedSeq(_)
SortedSeq(S) ==
    IF S = {} THEN << >>
    ELSE LET m == CHOOSE x \in S : \A y \in S : x <= y
         IN  <<m>> \o SortedSeq(S \ {m})

Segments(text) ==
    LET cuts == SortedSeq({0} \cup {k \in 1..Len(text) : text[k] = ","}
                              \cup {Len(text) + 1})
    IN  [k \in 1..(Len(cuts) - 1) |-> SubSeq(text, cuts[k] + 1, cuts[k + 1] - 1)]

\* handling the segments from left to right, as the claim describes it
RECURSIVE HandleSegments(_, _, _)
HandleSegments(segs, en, ids) ==
    IF segs = << >> THEN [ret |-> << >>, enabled |-> en]
    ELSE LET seg == Head(segs) IN
         IF seg = << >> THEN [ret |-> ErrEmpty, enabled |-> en]
         ELSE IF seg = sAll
         THEN HandleSegments(Tail(segs), en \cup {x \in ids : x # sInternal}, ids)
         ELSE IF seg \in ids
         THEN HandleSegments(Tail(segs),
                  IF seg = sInformation THEN en \cup {seg, sMissingInclude}
                                        ELSE en \cup {seg}, ids)
         ELSE [ret |-> ErrUnknown(seg), enabled |-> en]

Contains(s, pat) == \E at \in 0..Len(s) : MatchAt(s, pat, at)

\* C9: addEnabled(text) returns the string and leaves the set that handling
\* the comma-separated segments of text from left to right gives; it returns
\* the empty string only when no segment is empty or unknown, removes
\* nothing, and behaves as stated on the spec's example texts.
C9_AddEnabledBySegments ==
    enabledCall.op = "addEnabled" =>
        LET text == enabledCall.text
            ids == id(checkInternal)
            segs == Segments(text)
            want == HandleSegments(segs, enabledCall.before, ids)
        IN  /\ enabledCall.ret = want.ret
            /\ _enabled = want.enabled
            /\ enabledCall.before \subseteq _enabled
            /\ (enabledCall.ret = << >>) <=>
                   (\A k \in 1..Len(segs) : segs[k] = sAll \/ segs[k] \in ids)
            /\ text \in {<< >>, <<",">>, <<"x",",">>} => enabledCall.ret # << >>
            /\ text = <<"b","o","g","u","s">> => Contains(enabledCall.ret, <<"b","o","g","u","s">>)
            /\ (text = <<"s","t","y","l","e",",","p","e","r","f","o","r","m","a","n","c","e">> /\ enabledCall.before = {}) =>
                   (enabledCall.ret = << >> /\ _enabled = {<<"s","t","y","l","e">>, <<"p","e","r","f","o","r","m","a","n","c","e">>})
            /\ (text = sAll) => (sInternal \notin _enabled \ enabledCall.before)
            /\ (text = sInformation) => (sMissingInclude \in _enabled)

\* "information,bogus" was handled after "style,performance": the error names
\* bogus, and what the first segment enabled stays enabled
C9_Witness ==
    /\ enabledCall.op = "addEnabled"
    /\ enabledCall.text = <<"i","n","f","o","r","m","a","t","i","o","n",",","b","o","g","u","s">>
    /\ enabledCall.before = {<<"s","t","y","l","e">>, <<"p","e","r","f","o","r","m","a","n","c","e">>}
    /\ enabledCall.ret = ErrUnknown(<<"b","o","g","u","s">>)
    /\ _enabled = {<<"s","t","y","l","e">>, <<"p","e","r","f","o","r","m","a","n","c","e">>, sInformation, sMissingInclude}

----------------------------------------------------------------------------
(* Compiler-invocation importer: Settings::importCompileCommands.  The      *)
(* input is the token sequence createTokens() gives; a token is its str().  *)

\* %str% of Token::Match: a string literal token
IsStr(tok) == tok # << >> /\ tok[1] = "\""

\* Token::Match(tok, "%str% : %str% [,}]") at the i-th token (line 344)
MatchKeyValue(toks, i) ==
    /\ i + 3 <= Len(toks)
    /\ IsStr(toks[i])
    /\ toks[i + 1] = <<":">>
    /\ IsStr(toks[i + 2])
    /\ toks[i + 3] \in {<<",">>, <<"}">>}

\* s.substr(1, s.size() - 2U): the literal without its quotes (line 347)
Unquote(s) == Substr(s, 1, Len(s) - 2)

\* values[key], which is empty for a key never assigned
ValueOf(values, key) == IF key \in DOMAIN values THEN values[key] ELSE << >>

\* Path::fromNativeSeparators: every backslash becomes a slash
fromNativeSeparators(path) ==
    [k \in 1..Len(path) |-> IF path[k] = "\\" THEN "/" ELSE path[k]]

\* a FileSettings as its constructor leaves it
NewFileSettings ==
    [filename |-> << >>, defines |-> << >>, undefs |-> {}, includePaths |-> << >>,
     platformType |-> "Unspecified"]

\* the position of the first blank at or after from, or the size
RECURSIVE EndOfValue(_, _)
EndOfValue(cmd, from) ==
    IF from < Len(cmd) /\ cmd[from + 1] # " " THEN EndOfValue(cmd, from + 1)
    ELSE from

\* what one flag does to the record (lines 369-374)
ApplyFlag(fs, F, fval) ==
    IF F = "D" THEN [fs EXCEPT !.defines = @ \o fval \o <<";">>]
    ELSE IF F = "U" THEN [fs EXCEPT !.undefs = @ \cup {fval}]
    ELSE IF F = "I" THEN [fs EXCEPT !.includePaths = Append(@, fval)]
    ELSE fs

\* the while loop of lines 356-375, entered with pos = from
RECURSIVE CommandScan(_, _, _)
CommandScan(cmd, from, fs) ==
    LET sp == Find(cmd, <<" ">>, from) IN
    IF sp = npos THEN fs
    ELSE IF sp + 1 >= Len(cmd) THEN fs
    ELSE IF cmd[sp + 2] # "/" /\ cmd[sp + 2] # "-" THEN CommandScan(cmd, sp + 1, fs)
    ELSE IF sp + 2 >= Len(cmd) THEN fs
    ELSE LET F == cmd[sp + 3]
             end == EndOfValue(cmd, sp + 3)
             fval == SubSeq(cmd, sp + 4, end)
         IN  CommandScan(cmd, end, ApplyFlag(fs, F, fval))

\* the record importCompileCommands builds for a file and a command
\* (lines 352-375)
CommandRecord(file, cmd) ==
    CommandScan(cmd, 0, [NewFileSettings EXCEPT !.filename = fromNativeSeparators(file)])

\* CloseBrace gone wrong: the mapping is cleared only when a record is emitted
CloseBraceKeepsPartial(values, fs) ==
    IF ValueOf(values, <<"f","i","l","e">>) # << >> /\ ValueOf(values, <<"c","o","m","m","a","n","d">>) # << >>
    THEN [values |-> << >>,
          fs |-> Append(fs, CommandRecord(values[<<"f","i","l","e">>], values[<<"c","o","m","m","a","n","d">>]))]
    ELSE [values |-> values, fs |-> fs]

\* the branch of the "}" token (lines 350-379): emit when both values are
\* non-empty, then clear the mapping
CloseBrace(values, fs) ==
    IF ValueOf(values, <<"f","i","l","e">>) # << >> /\ ValueOf(values, <<"c","o","m","m","a","n","d">>) # << >>
    THEN [values |-> << >>,
          fs |-> Append(fs, CommandRecord(values[<<"f","i","l","e">>], values[<<"c","o","m","m","a","n","d">>]))]
    ELSE [values |-> << >>, fs |-> fs]

\* the for loop over the tokens (lines 343-380), entered at the i-th token
RECURSIVE CompileCommandsLoop(_, _, _, _)
CompileCommandsLoop(toks, i, values, fs) ==
    IF i > Len(toks) THEN fs
    ELSE IF MatchKeyValue(toks, i)
    THEN CompileCommandsLoop(toks, i + 1,
             (Unquote(toks[i]) :> Unquote(toks[i + 2])) @@ values, fs)
    ELSE IF toks[i] = <<"}">>
    THEN LET r == CloseBrace(values, fs)
         IN  CompileCommandsLoop(toks, i + 1, r.values, r.fs)
    ELSE CompileCommandsLoop(toks, i + 1, values, fs)

\* void Settings::importCompileCommands(std::istream &istr)
importCompileCommands(toks) ==
    /\ fileSettings' = CompileCommandsLoop(toks, 1, << >>, fileSettings)
    /\ importCall' = [op |-> "importCompileCommands", tokens |-> toks,
                      before |-> fileSettings]

----------------------------------------------------------------------------
(* IDE-project importer: ProjectConfiguration, ItemDefinitionGroup,         *)
(* toStringList and Settings::importVcxproj.                                *)

sConfigurationMacro == <<"$","(","C","o","n","f","i","g","u","r","a","t","i","o","n",")">>
sPlatformMacro == <<"$","(","P","l","a","t","f","o","r","m",")">>

\* c.erase(at, n); c.insert(at, text)
EraseInsert(s, at, n, text) ==
    SubSeq(s, 1, at) \o text \o SubSeq(s, at + n + 1, Len(s))

OperatorChars == {"=", "!", "|", "+", "<", ">", "&", "(", ")", "$"}
QuoteChars == {"'", "\""}

IsNameChar(ch) == ch \notin OperatorChars /\ ch \notin QuoteChars /\ ch # " "

\* the 1-based position of the quote closing the literal opened at from - 1,
\* or the size plus one when it is not closed
RECURSIVE ClosingQuote(_, _, _)
ClosingQuote(s, from, quote) ==
    IF from > Len(s) THEN from
    ELSE IF s[from] = quote THEN from
    ELSE ClosingQuote(s, from + 1, quote)

RECURSIVE EndOfName(_, _)
EndOfName(s, at) ==
    IF at < Len(s) /\ IsNameChar(s[at + 1]) THEN EndOfName(s, at + 1) ELSE at

\* TokenList::createTokens on a one-line expression: blanks separate, a
\* quoted literal is one token with its quotes, == != <= >= are one token,
\* any other operator character is a token, and names and numbers are runs
\* of the remaining characters.
RECURSIVE createTokens(_, _)
createTokens(s, at) ==
    IF at > Len(s) THEN << >>
    ELSE IF s[at] = " " THEN createTokens(s, at + 1)
    ELSE IF s[at] \in QuoteChars
    THEN LET close == ClosingQuote(s, at + 1, s[at])
         IN  <<SubSeq(s, at, close - 1) \o <<s[at]>>>> \o createTokens(s, close + 1)
    ELSE IF s[at] \in OperatorChars
    THEN IF s[at] \in {"=", "!", "<", ">"} /\ at < Len(s) /\ s[at + 1] = "="
         THEN <<SubSeq(s, at, at + 1)>> \o createTokens(s, at + 2)
         ELSE <<SubSeq(s, at, at)>> \o createTokens(s, at + 1)
    ELSE LET end == EndOfName(s, at)
         IN  <<SubSeq(s, at, end)>> \o createTokens(s, end + 1)

IsOperand(tok) == tok[1] \notin OperatorChars

BinaryOperators == {<<"=","=">>, <<"!","=">>, <<"|">>, <<"+">>}

\* C precedence: + binds tighter than == and !=, which bind tighter than |
Precedence(tok) ==
    CASE tok = <<"+">> -> 3
      [] tok \in {<<"=","=">>, <<"!","=">>} -> 2
      [] tok = <<"|">> -> 1

\* operand (operator operand)*
IsExpression(toks) ==
    /\ Len(toks) % 2 = 1
    /\ \A k \in 1..Len(toks) :
          IF k % 2 = 1 THEN IsOperand(toks[k]) ELSE toks[k] \in BinaryOperators

\* the token at the root of the expression in toks[lo..hi]: the operand
\* itself, or the rightmost operator of the lowest precedence
AstRoot(toks, lo, hi) ==
    IF lo = hi THEN lo
    ELSE LET ops == {k \in lo..hi : toks[k] \in BinaryOperators}
         IN  CHOOSE k \in ops :
                 \A j \in ops :
                     \/ Precedence(toks[k]) < Precedence(toks[j])
                     \/ Precedence(toks[k]) = Precedence(toks[j]) /\ j <= k

\* the operator nodes of the tree of toks[lo..hi]: the token, the tokens
\* its two operand subtrees span, and the tokens astOperand1()/astOperand2()
RECURSIVE AstNodes(_, _, _)
AstNodes(toks, lo, hi) ==
    IF lo >= hi THEN {}
    ELSE LET k == AstRoot(toks, lo, hi)
         IN  {[tok |-> k, lo |-> lo, hi |-> hi,
               astOperand1 |-> AstRoot(toks, lo, k - 1),
               astOperand2 |-> AstRoot(toks, k + 1, hi)]}
             \cup AstNodes(toks, lo, k - 1) \cup AstNodes(toks, k + 1, hi)

\* TokenList::createAst: the operator nodes of an expression; no token of
\* anything else (the empty token list too) has operands
createAst(toks) ==
    IF IsExpression(toks) THEN AstNodes(toks, 1, Len(toks)) ELSE {}

\* lines 425-434: whether some "==" token has two operands with equal str()
EqualOperandTokens(text) ==
    LET toks == createTokens(text, 1)
    IN  \E n \in createAst(toks) :
            /\ toks[n.tok] = <<"=","=">>
            /\ toks[n.astOperand1] = toks[n.astOperand2]

\* a loop of lines 416-419 / 420-423 run to its end, for a value that does
\* not bring the macro back
RECURSIVE ReplaceAll(_, _, _)
ReplaceAll(s, macro, value) ==
    LET at == Find(s, macro, 0) IN
    IF at = npos THEN s
    ELSE ReplaceAll(EraseInsert(s, at, Len(macro), value), macro, value)

\* bool ItemDefinitionGroup::conditionIsTrue(const ProjectConfiguration &p)
conditionIsTrue(cond, cfg) ==
    EqualOperandTokens(
        ReplaceAll(ReplaceAll(cond, sConfigurationMacro, cfg.configuration),
                   sPlatformMacro, cfg.platform))

\* static std::list<std::string> toStringList(const std::string &s), with
\* pos1 = from on entry to the loop
RECURSIVE toStringListFrom(_, _)
toStringListFrom(s, from) ==
    LET at == Find(s, <<";">>, from) IN
    IF at # npos
    THEN <<Substr(s, from, at - from)>>
         \o (IF at + 1 >= Len(s) THEN << >> ELSE toStringListFrom(s, at + 1))
    ELSE IF from < Len(s) THEN <<SubstrFrom(s, from)>> ELSE << >>

toStringList(s) == toStringListFrom(s, 0)

\* An attribute or element that may be missing is << >> when it is missing
\* and <<v>> when it is there with value v (a null pointer, or not).
Absent == << >>
Present(v) == <<v>>

\* ProjectConfiguration::ProjectConfiguration (lines 385-392): the texts of
\* the Configuration and Platform children of cfg, the last of each
RECURSIVE ProjectConfigurationFrom(_, _, _)
ProjectConfigurationFrom(pc, children, k) ==
    IF k > Len(children) THEN pc
    ELSE LET e == children[k] IN
         ProjectConfigurationFrom(
             IF e.name = "Configuration" THEN [pc EXCEPT !.configuration = e.text]
             ELSE IF e.name = "Platform" THEN [pc EXCEPT !.platform = e.text]
             ELSE pc,
             children, k + 1)

ProjectConfiguration(cfg) ==
    ProjectConfigurationFrom([configuration |-> << >>, platform |-> << >>],
                             cfg.children, 1)

\* the inner loop of the ItemDefinitionGroup constructor (lines 405-410)
RECURSIVE ClCompileOptions(_, _, _)
ClCompileOptions(g, children, k) ==
    IF k > Len(children) THEN g
    ELSE LET e == children[k] IN
         ClCompileOptions(
             IF e.name = "PreprocessorDefinitions"
             THEN [g EXCEPT !.preprocessorDefinitions = e.text]
             ELSE IF e.name = "AdditionalIncludeDirectories"
             THEN [g EXCEPT !.additionalIncludePaths = e.text]
             ELSE g,
             children, k + 1)

\* the outer loop of the ItemDefinitionGroup constructor (lines 402-411)
RECURSIVE ItemDefinitionGroupFrom(_, _, _)
ItemDefinitionGroupFrom(g, children, k) ==
    IF k > Len(children) THEN g
    ELSE ItemDefinitionGroupFrom(
             IF children[k].name # "ClCompile" THEN g
             ELSE ClCompileOptions(g, children[k].children, 1),
             children, k + 1)

\* ItemDefinitionGroup::ItemDefinitionGroup (lines 398-412); the condition
\* stays empty when the element has no Condition attribute
ItemDefinitionGroup(idg) ==
    ItemDefinitionGroupFrom(
        [condition |-> IF idg.Condition # Absent THEN idg.Condition[1] ELSE << >>,
         preprocessorDefinitions |-> << >>, additionalIncludePaths |-> << >>],
        idg.children, 1)

ElementsNamed(children, name) ==
    LET at == SortedSeq({k \in 1..Len(children) : children[k].name = name})
    IN  [k \in 1..Len(at) |-> children[at[k]]]

\* what one top-level element adds to the three lists (lines 471-485)
ProjectNode(lists, node) ==
    IF node.name = "ItemGroup"
    THEN IF node.Label # Absent /\ node.Label[1] = "ProjectConfigurations"
         THEN LET cfgs == ElementsNamed(node.children, "ProjectConfiguration")
              IN  [lists EXCEPT !.projectConfigurationList =
                       @ \o [k \in 1..Len(cfgs) |-> ProjectConfiguration(cfgs[k])]]
         ELSE LET cls == ElementsNamed(node.children, "ClCompile")
              IN  [lists EXCEPT !.compileList =
                       @ \o [k \in 1..Len(cls) |-> cls[k].Include]]
    ELSE IF node.name = "ItemDefinitionGroup"
    THEN [lists EXCEPT !.itemDefinitionGroupList =
              Append(@, ItemDefinitionGroup(node))]
    ELSE lists

\* the first loop of importVcxproj (lines 470-486)
RECURSIVE ProjectLists(_, _, _)
ProjectLists(lists, nodes, k) ==
    IF k > Len(nodes) THEN lists
    ELSE ProjectLists(ProjectNode(lists, nodes[k]), nodes, k + 1)

\* Path::getPathFromFilename: the name up to and including its last separator
getPathFromFilename(filename) ==
    LET seps == {k \in 1..Len(filename) : filename[k] \in {"/", "\\"}}
    IN  IF seps = {} THEN << >>
        ELSE SubSeq(filename, 1, CHOOSE k \in seps : \A j \in seps : j <= k)

\* Path::simplifyPath: slashes as separators, no leading "./"
RECURSIVE simplifyPath(_)
simplifyPath(path) ==
    LET s == fromNativeSeparators(path) IN
    IF Len(s) >= 2 /\ s[1] = "." /\ s[2] = "/" THEN simplifyPath(SubstrFrom(s, 2))
    ELSE s

\* lines 497-500: the platform type of a record
PlatformOf(platformText, default) ==
    IF platformText = <<"W","i","n","3","2">> THEN "Win32W"
    ELSE IF platformText = <<"x","6","4">> THEN "Win64"
    ELSE default

\* the body of the innermost loop (lines 491-501): the records, none or
\* one, that file cf, configuration cfg and group g add
TripleRecords(filename, cf, cfg, g) ==
    IF ~conditionIsTrue(g.condition, cfg) THEN << >>
    ELSE <<[filename |-> simplifyPath(getPathFromFilename(filename) \o cf),
            defines |-> g.preprocessorDefinitions,
            undefs |-> {},
            includePaths |-> toStringList(g.additionalIncludePaths),
            platformType |-> PlatformOf(cfg.platform, NewFileSettings.platformType)]>>

\* AssembleRecords gone wrong: once a group matched a file and a
\* configuration, the groups after it are not tried
RECURSIVE AssembleFirstMatch(_, _, _, _, _)
AssembleFirstMatch(filename, lists, ci, pi, gi) ==
    IF ci > Len(lists.compileList) THEN << >>
    ELSE IF pi > Len(lists.projectConfigurationList)
    THEN AssembleFirstMatch(filename, lists, ci + 1, 1, 1)
    ELSE IF gi > Len(lists.itemDefinitionGroupList)
    THEN AssembleFirstMatch(filename, lists, ci, pi + 1, 1)
    ELSE LET r == TripleRecords(filename, lists.compileList[ci],
                                lists.projectConfigurationList[pi],
                                lists.itemDefinitionGroupList[gi])
         IN  IF r # << >>
             THEN r \o AssembleFirstMatch(filename, lists, ci, pi + 1, 1)
             ELSE AssembleFirstMatch(filename, lists, ci, pi, gi + 1)

\* the three nested loops of lines 488-504, entered at file ci,
\* configuration pi and group gi
RECURSIVE AssembleRecords(_, _, _, _, _)
AssembleRecords(filename, lists, ci, pi, gi) ==
    IF ci > Len(lists.compileList) THEN << >>
    ELSE IF pi > Len(lists.projectConfigurationList)
    THEN AssembleRecords(filename, lists, ci + 1, 1, 1)
    ELSE IF gi > Len(lists.itemDefinitionGroupList)
    THEN AssembleRecords(filename, lists, ci, pi + 1, 1)
    ELSE TripleRecords(filename, lists.compileList[ci],
                       lists.projectConfigurationList[pi],
                       lists.itemDefinitionGroupList[gi])
         \o AssembleRecords(filename, lists, ci, pi, gi + 1)

NoLists == [projectConfigurationList |-> << >>, compileList |-> << >>,
            itemDefinitionGroupList |-> << >>]

\* void Settings::importVcxproj(const std::string &filename), doc being the
\* document the file holds
importVcxproj(filename, doc) ==
    /\ IF ~doc.loads \/ doc.root = Absent
       THEN fileSettings' = fileSettings
       ELSE fileSettings' =
                fileSettings
                \o AssembleRecords(filename,
                                   ProjectLists(NoLists, doc.root[1].children, 1),
                                   1, 1, 1)
    /\ importCall' = [op |-> "importVcxproj", before |-> fileSettings]

----------------------------------------------------------------------------
(* Specification of the platform model: any sequence of platform() and     *)
(* platformFile() calls on a constructed Settings.                         *)

PlatformInit ==
    /\ host \in HostABIs
    /\ platformType = Constructed(host).platformType
    /\ sizeof_bool = Constructed(host).sz.sizeof_bool
    /\ sizeof_short = Constructed(host).sz.sizeof_short
    /\ sizeof_int = Constructed(host).sz.sizeof_int
    /\ sizeof_long = Constructed(host).sz.sizeof_long
    /\ sizeof_long_long = Constructed(host).sz.sizeof_long_long
    /\ sizeof_float = Constructed(host).sz.sizeof_float
    /\ sizeof_double = Constructed(host).sz.sizeof_double
    /\ sizeof_long_double = Constructed(host).sz.sizeof_long_double
    /\ sizeof_wchar_t = Constructed(host).sz.sizeof_wchar_t
    /\ sizeof_size_t = Constructed(host).sz.sizeof_size_t
    /\ sizeof_pointer = Constructed(host).sz.sizeof_pointer
    /\ defaultSign = Constructed(host).defaultSign
    /\ char_bit = Constructed(host).char_bit
    /\ short_bit = Constructed(host).short_bit
    /\ int_bit = Constructed(host).int_bit
    /\ long_bit = Constructed(host).long_bit
    /\ long_long_bit = Constructed(host).long_long_bit
    /\ platformCall = [op |-> "Settings", ret |-> TRUE]
    /\ descriptor = None
    /\ checkInternal = FALSE
    /\ _enabled = {}
    /\ enabledCall = [op |-> None]
    /\ fileSettings = << >>
    /\ importCall = [op |-> None]
    /\ project = [loads |-> FALSE, root |-> << >>]
    /\ command = << >>
    /\ scanned = [op |-> None]
    /\ condition = << >>
    /\ p = [configuration |-> << >>, platform |-> << >>]
    /\ c = << >>
    /\ pos = 0
    /\ cpc = "idle"
    /\ cret = FALSE

\* a PlatformType value outside the enumeration (a cast integer)
BadPlatformType == "PlatformType(7)"

SelectPlatform ==
    /\ \E type \in PlatformTypes \cup {BadPlatformType} : platform(type)
    /\ UNCHANGED <<descriptor, enabledVars, importVars, scanVars, condVars>>

LoadPlatformFile ==
    /\ \E doc \in Descriptors : platformFile(doc)
    /\ UNCHANGED <<descriptor, enabledVars, importVars, scanVars, condVars>>

NextPlatform == SelectPlatform \/ LoadPlatformFile

SpecPlatform == PlatformInit /\ [][NextPlatform]_vars

\* C1: after any sequence of platform() and platformFile() calls, whatever
\* each returned, every derived bit width is char_bit times the byte width.
C1_BitWidthsMatch ==
    /\ short_bit = char_bit * sizeof_short
    /\ int_bit = char_bit * sizeof_int
    /\ long_bit = char_bit * sizeof_long
    /\ long_long_bit = char_bit * sizeof_long_long

\* a descriptor changed char_bit, and a later call returned false
C1_Witness ==
    /\ platformCall.ret = FALSE
    /\ char_bit = 16
    /\ long_bit = 16 * sizeof_long

----------------------------------------------------------------------------
(* Specification of one descriptor load: a constructed Settings, possibly   *)
(* a selected profile, then platformFile on a given descriptor.             *)

DescriptorInit ==
    /\ host \in HostABIs
    /\ platformType = Constructed(host).platformType
    /\ sizeof_bool = Constructed(host).sz.sizeof_bool
    /\ sizeof_short = Constructed(host).sz.sizeof_short
    /\ sizeof_int = Constructed(host).sz.sizeof_int
    /\ sizeof_long = Constructed(host).sz.sizeof_long
    /\ sizeof_long_long = Constructed(host).sz.sizeof_long_long
    /\ sizeof_float = Constructed(host).sz.sizeof_float
    /\ sizeof_double = Constructed(host).sz.sizeof_double
    /\ sizeof_long_double = Constructed(host).sz.sizeof_long_double
    /\ sizeof_wchar_t = Constructed(host).sz.sizeof_wchar_t
    /\ sizeof_size_t = Constructed(host).sz.sizeof_size_t
    /\ sizeof_pointer = Constructed(host).sz.sizeof_pointer
    /\ defaultSign = Constructed(host).defaultSign
    /\ char_bit = Constructed(host).char_bit
    /\ short_bit = Constructed(host).short_bit
    /\ int_bit = Constructed(host).int_bit
    /\ long_bit = Constructed(host).long_bit
    /\ long_long_bit = Constructed(host).long_long_bit
    /\ platformCall = [op |-> "Settings", ret |-> TRUE]
    /\ descriptor \in AllDescriptors
    /\ checkInternal = FALSE
    /\ _enabled = {}
    /\ enabledCall = [op |-> None]
    /\ fileSettings = << >>
    /\ importCall = [op |-> None]
    /\ project = [loads |-> FALSE, root |-> << >>]
    /\ command = << >>
    /\ scanned = [op |-> None]
    /\ condition = << >>
    /\ p = [configuration |-> << >>, platform |-> << >>]
    /\ c = << >>
    /\ pos = 0
    /\ cpc = "idle"
    /\ cret = FALSE

SelectBeforeLoad ==
    /\ platformCall.op = "Settings"
    /\ \E type \in PlatformTypes : platform(type)
    /\ UNCHANGED <<descriptor, enabledVars, importVars, scanVars, condVars>>

LoadDescriptor ==
    /\ platformCall.op # "platformFile"
    /\ platformFile(descriptor)
    /\ UNCHANGED <<descriptor, enabledVars, importVars, scanVars, condVars>>

NextDescriptor == SelectBeforeLoad \/ LoadDescriptor

SpecDescriptor == DescriptorInit /\ [][NextDescriptor]_vars

PrimitiveNames == {"short", "int", "long", "long-long", "float", "double",
                   "long-double", "pointer", "size_t", "wchar_t"}

\* the byte width field a primitive's name stands for
WidthField(name) ==
    CASE name = "short" -> sizeof_short
      [] name = "int" -> sizeof_int
      [] name = "long" -> sizeof_long
      [] name = "long-long" -> sizeof_long_long
      [] name = "float" -> sizeof_float
      [] name = "double" -> sizeof_double
      [] name = "long-double" -> sizeof_long_double
      [] name = "pointer" -> sizeof_pointer
      [] name = "size_t" -> sizeof_size_t
      [] name = "wchar_t" -> sizeof_wchar_t

\* the children of the sizeof elements of a descriptor, in document order
RECURSIVE SuppliedChildren(_)
SuppliedChildren(nodes) ==
    IF nodes = << >> THEN << >>
    ELSE (IF Head(nodes).name = "sizeof" THEN Head(nodes).children ELSE << >>)
         \o SuppliedChildren(Tail(nodes))

\* the integers the descriptor supplies for a primitive
Supplied(doc, name) ==
    LET cs == SuppliedChildren(doc.nodes)
    IN  {atoi(cs[k].text) : k \in {j \in 1..Len(cs) : cs[j].name = name}}

Loaded == platformCall.op = "platformFile" /\ platformCall.ret

\* C2: after platformFile accepted a descriptor whose sizeof element has a
\* child naming a primitive, that primitive's byte width is the integer the
\* child supplies, and the derived bit widths are computed from the widths.
C2_SizeofChildSetsWidth ==
    Loaded =>
        /\ \A name \in PrimitiveNames :
              Supplied(descriptor, name) # {} =>
                  WidthField(name) \in Supplied(descriptor, name)
        /\ C1_BitWidthsMatch

SpecEnabled == EnabledInit /\ [][NextEnabled]_vars

----------------------------------------------------------------------------
(* Specification of the compile-command import: any sequence of             *)
(* importCompileCommands calls on token streams of a few objects.           *)

MaxObjects == 2
MaxPriorRecords == 1

Quoted(s) == <<"\"">> \o s \o <<"\"">>

Pair(key, value) == <<Quoted(key), <<":">>, Quoted(value)>>

\* the tokens of { pair , pair ... }
RECURSIVE PairsWith(_, _)
PairsWith(pairs, sep) ==
    IF pairs = << >> THEN << >>
    ELSE IF Len(pairs) = 1 THEN pairs[1]
    ELSE pairs[1] \o sep \o PairsWith(Tail(pairs), sep)

Object(pairs) == <<<<"{">>>> \o PairsWith(pairs, <<<<",">>>>) \o <<<<"}">>>>

sGccCommand == <<"g","c","c"," ","-","D","F","O","O"," ","-","I","i","n","c"," ","a",".","c">>

ObjectPool ==
    { Object(<<Pair(<<"f","i","l","e">>, <<"a",".","c">>), Pair(<<"c","o","m","m","a","n","d">>, sGccCommand)>>),
      Object(<<Pair(<<"c","o","m","m","a","n","d">>, <<"c","l"," ","/","D","X"," ","b",".","c">>), Pair(<<"d","i","r","e","c","t","o","r","y">>, <<"/","w">>),
               Pair(<<"f","i","l","e">>, <<"a",".","c">>), Pair(<<"f","i","l","e">>, <<"s","r","c","\\","b",".","c">>)>>),
      Object(<<Pair(<<"f","i","l","e">>, <<"a",".","c">>)>>),
      Object(<<Pair(<<"c","o","m","m","a","n","d">>, sGccCommand)>>),
      Object(<<Pair(<<"f","i","l","e">>, << >>), Pair(<<"c","o","m","m","a","n","d">>, sGccCommand)>>),
      \* no comma between the pairs
      <<<<"{">>>> \o PairsWith(<<Pair(<<"f","i","l","e">>, <<"a",".","c">>), Pair(<<"c","o","m","m","a","n","d">>, sGccCommand)>>,
                           << >>) \o <<<<"}">>>> }

\* [ object , object ... ]
TokenStreams ==
    { <<<<"[">>>> \o PairsWith(objs, <<<<",">>>>) \o <<<<"]">>>> :
        objs \in UNION {[1..k -> ObjectPool] : k \in 0..MaxObjects} }

ImportCompileCommands ==
    /\ Len(fileSettings) <= MaxPriorRecords
    /\ \E toks \in TokenStreams : importCompileCommands(toks)
    /\ UNCHANGED <<project, platformVars, enabledVars, scanVars, condVars>>

NextCompileCommands == ImportCompileCommands

ImportInit ==
    /\ host = DefaultHost
    /\ platformType = Constructed(host).platformType
    /\ sizeof_bool = Constructed(host).sz.sizeof_bool
    /\ sizeof_short = Constructed(host).sz.sizeof_short
    /\ sizeof_int = Constructed(host).sz.sizeof_int
    /\ sizeof_long = Constructed(host).sz.sizeof_long
    /\ sizeof_long_long = Constructed(host).sz.sizeof_long_long
    /\ sizeof_float = Constructed(host).sz.sizeof_float
    /\ sizeof_double = Constructed(host).sz.sizeof_double
    /\ sizeof_long_double = Constructed(host).sz.sizeof_long_double
    /\ sizeof_wchar_t = Constructed(host).sz.sizeof_wchar_t
    /\ sizeof_size_t = Constructed(host).sz.sizeof_size_t
    /\ sizeof_pointer = Constructed(host).sz.sizeof_pointer
    /\ defaultSign = Constructed(host).defaultSign
    /\ char_bit = Constructed(host).char_bit
    /\ short_bit = Constructed(host).short_bit
    /\ int_bit = Constructed(host).int_bit
    /\ long_bit = Constructed(host).long_bit
    /\ long_long_bit = Constructed(host).long_long_bit
    /\ platformCall = [op |-> "Settings", ret |-> TRUE]
    /\ descriptor = None
    /\ checkInternal = FALSE
    /\ _enabled = {}
    /\ enabledCall = [op |-> None]
    /\ command = << >>
    /\ scanned = [op |-> None]
    /\ condition = << >>
    /\ p = [configuration |-> << >>, platform |-> << >>]
    /\ c = << >>
    /\ pos = 0
    /\ cpc = "idle"
    /\ cret = FALSE
    /\ fileSettings = << >>
    /\ importCall = [op |-> None]
    /\ project = [loads |-> FALSE, root |-> << >>]

SpecCompileCommands == ImportInit /\ [][NextCompileCommands]_vars

\* the positions of the "}" tokens, in order
ClosePositions(toks) == SortedSeq({j \in 1..Len(toks) : toks[j] = <<"}">>})

\* the value last captured for a key among the tokens after position lo and
\* before position hi; None when the key was not captured there
Captured(toks, lo, hi, key) ==
    LET at == {i \in (lo + 1)..(hi - 1) :
                  MatchKeyValue(toks, i) /\ toks[i] = Quoted(key)}
    IN  IF at = {} THEN None
        ELSE LET last == CHOOSE i \in at : \A j \in at : j <= i
             IN  SubSeq(toks[last + 2], 2, Len(toks[last + 2]) - 1)

\* the file names of the objects that count, in input order; an object is
\* the tokens between two "}" tokens, and a value counts when it was captured and, with
\* nonEmpty, is not empty
RECURSIVE ObjectFiles(_, _, _, _)
ObjectFiles(toks, closes, k, nonEmpty) ==
    IF k > Len(closes) THEN << >>
    ELSE LET lo == IF k = 1 THEN 0 ELSE closes[k - 1]
             file == Captured(toks, lo, closes[k], <<"f","i","l","e">>)
             cmd == Captured(toks, lo, closes[k], <<"c","o","m","m","a","n","d">>)
             Counts(v) == v # None /\ (nonEmpty => v # << >>)
         IN  (IF Counts(file) /\ Counts(cmd)
              THEN <<fromNativeSeparators(file)>> ELSE << >>)
             \o ObjectFiles(toks, closes, k + 1, nonEmpty)

Filenames(fs) == [k \in 1..Len(fs) |-> fs[k].filename]

ImportedCommands == importCall.op = "importCompileCommands"

AppendedFiles ==
    Filenames(SubSeq(fileSettings, Len(importCall.before) + 1, Len(fileSettings)))

KeepsPriorRecords ==
    /\ Len(importCall.before) <= Len(fileSettings)
    /\ SubSeq(fileSettings, 1, Len(importCall.before)) = importCall.before

\* C5 as stated: importCompileCommands appends, after the records already
\* there and in input order, exactly one record for each object in which
\* both a "file" and a "command" key were captured, and none for the others.
C5_OneRecordPerCapturedObject ==
    ImportedCommands =>
        /\ KeepsPriorRecords
        /\ AppendedFiles = ObjectFiles(importCall.tokens,
                               ClosePositions(importCall.tokens), 1, FALSE)

\* C5 amended: exactly one record for each object in which both a "file" and
\* a "command" key were captured with a non-empty value, and none for the
\* others; a key captured before a "}" never counts for a later object.
C5_OneRecordPerNonEmptyObject ==
    ImportedCommands =>
        /\ KeepsPriorRecords
        /\ AppendedFiles = ObjectFiles(importCall.tokens,
                               ClosePositions(importCall.tokens), 1, TRUE)

\* a stream of two objects, the first with only "file" and the second with
\* only "command", imported after an earlier record: nothing is appended
C5_Witness ==
    /\ ImportedCommands
    /\ importCall.tokens =
          <<<<"[">>, <<"{">>>> \o Pair(<<"f","i","l","e">>, <<"a",".","c">>) \o <<<<"}">>, <<",">>, <<"{">>>>
          \o Pair(<<"c","o","m","m","a","n","d">>, sGccCommand) \o <<<<"}">>, <<"]">>>>
    /\ Len(importCall.before) = 1
    /\ fileSettings = importCall.before

----------------------------------------------------------------------------
(* Specification of the command line scan: the record built for one         *)
(* command, for commands of a compiler name and a few arguments.            *)

MaxArgs == 2

ArgPool == { <<"-","D","F","O","O">>, <<"-","D">>, <<"F","O","O">>, <<"-","I","i","n","c">>, <<"-","U","B","A","R">>, <<"/","D","X","=","1">>, <<"-","O","2">>, <<"-">>,
             <<"a",".","c">>, << >> }

RECURSIVE JoinArgs(_)
JoinArgs(args) ==
    IF args = << >> THEN << >> ELSE <<" ">> \o Head(args) \o JoinArgs(Tail(args))

Commands ==
    { <<"g","c","c">> \o JoinArgs(args) :
        args \in UNION {[1..k -> ArgPool] : k \in 0..MaxArgs} }

ScanInit ==
    /\ host = DefaultHost
    /\ platformType = Constructed(host).platformType
    /\ sizeof_bool = Constructed(host).sz.sizeof_bool
    /\ sizeof_short = Constructed(host).sz.sizeof_short
    /\ sizeof_int = Constructed(host).sz.sizeof_int
    /\ sizeof_long = Constructed(host).sz.sizeof_long
    /\ sizeof_long_long = Constructed(host).sz.sizeof_long_long
    /\ sizeof_float = Constructed(host).sz.sizeof_float
    /\ sizeof_double = Constructed(host).sz.sizeof_double
    /\ sizeof_long_double = Constructed(host).sz.sizeof_long_double
    /\ sizeof_wchar_t = Constructed(host).sz.sizeof_wchar_t
    /\ sizeof_size_t = Constructed(host).sz.sizeof_size_t
    /\ sizeof_pointer = Constructed(host).sz.sizeof_pointer
    /\ defaultSign = Constructed(host).defaultSign
    /\ char_bit = Constructed(host).char_bit
    /\ short_bit = Constructed(host).short_bit
    /\ int_bit = Constructed(host).int_bit
    /\ long_bit = Constructed(host).long_bit
    /\ long_long_bit = Constructed(host).long_long_bit
    /\ platformCall = [op |-> "Settings", ret |-> TRUE]
    /\ descriptor = None
    /\ checkInternal = FALSE
    /\ _enabled = {}
    /\ enabledCall = [op |-> None]
    /\ fileSettings = << >>
    /\ importCall = [op |-> None]
    /\ project = [loads |-> FALSE, root |-> << >>]
    /\ condition = << >>
    /\ p = [configuration |-> << >>, platform |-> << >>]
    /\ c = << >>
    /\ pos = 0
    /\ cpc = "idle"
    /\ cret = FALSE
    /\ command \in Commands
    /\ scanned = [op |-> None]

ScanCommand ==
    /\ scanned.op = None
    /\ scanned' = [op |-> "scanned", fs |-> CommandRecord(<<"a",".","c">>, command)]
    /\ UNCHANGED <<command, platformVars, enabledVars, importVars, condVars>>

NextScan == ScanCommand

SpecScan == ScanInit /\ [][NextScan]_vars

Flags(fs) == [defines |-> fs.defines, undefs |-> fs.undefs,
              includePaths |-> fs.includePaths]

\* the command without the three characters at 0-based position at
Without3(cmd, at) == SubSeq(cmd, 1, at) \o SubSeq(cmd, at + 4, Len(cmd))

\* C6: a flag letter separated from its value by a space is not recognized:
\* the record of a command containing "-D FOO" has the defines, undefines
\* and include paths of the command without that "-D", whereas "-DFOO" adds
\* "FOO;" to the defines.
C6_SeparatedFlagIgnored ==
    scanned.op = "scanned" =>
        /\ \A at \in 0..Len(command) :
              MatchAt(command, <<" ","-","D"," ","F","O","O">>, at) =>
                  Flags(scanned.fs) =
                      Flags(CommandRecord(<<"a",".","c">>, Without3(command, at)))
        /\ (\E at \in 0..Len(command) : MatchAt(command, <<" ","-","D","F","O","O">>, at)) =>
               Contains(scanned.fs.defines, <<"F","O","O",";">>)

\* the tokens of a command that a space precedes, in order (the compiler
\* name, which no space precedes, is not one of them)
SpacedTokens(cmd) ==
    LET all == LET cuts == SortedSeq({0} \cup {k \in 1..Len(cmd) : cmd[k] = " "}
                                         \cup {Len(cmd) + 1})
               IN  [k \in 1..(Len(cuts) - 1) |->
                       SubSeq(cmd, cuts[k] + 1, cuts[k + 1] - 1)]
    IN  Tail(all)

IsFlag(tok, letter) ==
    Len(tok) >= 2 /\ tok[1] \in {"-", "/"} /\ tok[2] = letter

FlagValue(tok) == SubSeq(tok, 3, Len(tok))

RECURSIVE DefinesOf(_)
DefinesOf(toks) ==
    IF toks = << >> THEN << >>
    ELSE (IF IsFlag(Head(toks), "D") THEN FlagValue(Head(toks)) \o <<";">> ELSE << >>)
         \o DefinesOf(Tail(toks))

RECURSIVE IncludesOf(_)
IncludesOf(toks) ==
    IF toks = << >> THEN << >>
    ELSE (IF IsFlag(Head(toks), "I") THEN <<FlagValue(Head(toks))>> ELSE << >>)
         \o IncludesOf(Tail(toks))

UndefsOf(toks) ==
    {FlagValue(toks[k]) : k \in {j \in 1..Len(toks) : IsFlag(toks[j], "U")}}

\* C7: the defines are the values of the D flags, each followed by ";", in
\* order of occurrence; the include paths are the values of the I flags in
\* order; the undefines are the values of the U flags; where a flag is a
\* space-preceded token beginning with "-" or "/", its next character the
\* flag letter and the rest of the token the value; nothing else contributes.
C7_FlagsOfSpacedTokens ==
    scanned.op = "scanned" =>
        LET toks == SpacedTokens(command) IN
        /\ scanned.fs.defines = DefinesOf(toks)
        /\ scanned.fs.includePaths = IncludesOf(toks)
        /\ scanned.fs.undefs = UndefsOf(toks)

----------------------------------------------------------------------------
(* Specification of one project import: importVcxproj on a given .vcxproj   *)
(* document, on a Settings with or without earlier records.                 *)

MaxFiles == 1
MaxGroups == 2

Text(name, text) == [name |-> name, text |-> text]

ProjectConfigurationElement(conf, plat) ==
    [name |-> "ProjectConfiguration",
     children |-> <<Text("Configuration", conf), Text("Platform", plat)>>]

ConfigurationLists ==
    { <<ProjectConfigurationElement(<<"D","e","b","u","g">>, <<"W","i","n","3","2">>),
        ProjectConfigurationElement(<<"R","e","l","e","a","s","e">>, <<"x","6","4">>)>>,
      <<ProjectConfigurationElement(<<"R","e","l","e","a","s","e">>, <<"x","6","4">>)>>,
      <<ProjectConfigurationElement(<<"D","e","b","u","g">>, <<"A","R","M">>),
        [name |-> "PropertyGroup", children |-> << >>]>> }

ClCompileItem(path) == [name |-> "ClCompile", Include |-> path]

FileLists ==
    UNION {[1..k -> {ClCompileItem(<<"m","a","i","n",".","c","p","p">>), ClCompileItem(<<".","\\","s","r","c","\\","b",".","c","p","p">>)}] :
              k \in 0..MaxFiles}

ItemDefinitionGroupElement(cond, defs, incs) ==
    [name |-> "ItemDefinitionGroup", Condition |-> cond,
     children |-> <<[name |-> "Link", children |-> << >>],
                    [name |-> "ClCompile",
                     children |-> <<Text("WarningLevel", <<"L","e","v","e","l","3">>),
                                    Text("PreprocessorDefinitions", defs),
                                    Text("AdditionalIncludeDirectories", incs)>>]>>]

sDebugWin32Condition == <<"'","$","(","C","o","n","f","i","g","u","r","a","t","i","o","n",")","|","$","(","P","l","a","t","f","o","r","m",")","'","=","=","'","D","e","b","u","g","|","W","i","n","3","2","'">>

GroupPool ==
    { ItemDefinitionGroupElement(Absent, <<"C","O","M","M","O","N">>, <<"i","n","c">>),
      ItemDefinitionGroupElement(Present(<< >>), <<"E","M","P","T","Y">>, <<"i","n","c",";">>),
      ItemDefinitionGroupElement(Present(sDebugWin32Condition), <<"W","I","N","3","2",";","_","D","E","B","U","G">>, <<"a",";","b">>),
      ItemDefinitionGroupElement(Present(<<"'","$","(","C","o","n","f","i","g","u","r","a","t","i","o","n",")","'","=","=","'","R","e","l","e","a","s","e","'">>), <<"N","D","E","B","U","G">>, <<";","r">>),
      ItemDefinitionGroupElement(Present(<<"'","$","(","P","l","a","t","f","o","r","m",")","'","!","=","'","x","6","4","'">>), <<"N","O","T","6","4">>, << >>),
      ItemDefinitionGroupElement(Present(<<"$","(","P","l","a","t","f","o","r","m",")">>), <<"B","A","R","E">>, << >>) }

GroupLists == UNION {[1..k -> GroupPool] : k \in 0..MaxGroups}

ProjectDocument(cfgs, files, groups) ==
    [loads |-> TRUE,
     root |-> Present(
         [name |-> "Project",
          children |->
              <<[name |-> "ItemGroup", Label |-> Present("ProjectConfigurations"),
                 children |-> cfgs],
                [name |-> "ItemGroup", Label |-> Absent, children |-> files],
                [name |-> "Import", Label |-> Absent, children |-> << >>]>>
              \o groups])]

Projects ==
    { [loads |-> FALSE, root |-> Absent], [loads |-> TRUE, root |-> Absent] }
    \cup { ProjectDocument(cfgs, files, groups) :
              cfgs \in ConfigurationLists, files \in FileLists,
              groups \in GroupLists }

sProjectFile == <<"p","r","j","/","a","p","p",".","v","c","x","p","r","o","j">>

\* a record an earlier import of a command database left
PriorRecord == CommandRecord(<<"o","l","d",".","c">>, <<"c","c"," ","-","D","O","L","D"," ","o","l","d",".","c">>)

VcxprojInit ==
    /\ host = DefaultHost
    /\ platformType = Constructed(host).platformType
    /\ sizeof_bool = Constructed(host).sz.sizeof_bool
    /\ sizeof_short = Constructed(host).sz.sizeof_short
    /\ sizeof_int = Constructed(host).sz.sizeof_int
    /\ sizeof_long = Constructed(host).sz.sizeof_long
    /\ sizeof_long_long = Constructed(host).sz.sizeof_long_long
    /\ sizeof_float = Constructed(host).sz.sizeof_float
    /\ sizeof_double = Constructed(host).sz.sizeof_double
    /\ sizeof_long_double = Constructed(host).sz.sizeof_long_double
    /\ sizeof_wchar_t = Constructed(host).sz.sizeof_wchar_t
    /\ sizeof_size_t = Constructed(host).sz.sizeof_size_t
    /\ sizeof_pointer = Constructed(host).sz.sizeof_pointer
    /\ defaultSign = Constructed(host).defaultSign
    /\ char_bit = Constructed(host).char_bit
    /\ short_bit = Constructed(host).short_bit
    /\ int_bit = Constructed(host).int_bit
    /\ long_bit = Constructed(host).long_bit
    /\ long_long_bit = Constructed(host).long_long_bit
    /\ platformCall = [op |-> "Settings", ret |-> TRUE]
    /\ descriptor = None
    /\ checkInternal = FALSE
    /\ _enabled = {}
    /\ enabledCall = [op |-> None]
    /\ command = << >>
    /\ scanned = [op |-> None]
    /\ condition = << >>
    /\ p = [configuration |-> << >>, platform |-> << >>]
    /\ c = << >>
    /\ pos = 0
    /\ cpc = "idle"
    /\ cret = FALSE
    /\ fileSettings \in {<< >>, <<PriorRecord>>}
    /\ importCall = [op |-> None]
    /\ project \in Projects

ImportVcxproj ==
    /\ importCall.op = None
    /\ importVcxproj(sProjectFile, project)
    /\ UNCHANGED <<project, platformVars, enabledVars, scanVars, condVars>>

NextVcxproj == ImportVcxproj

SpecVcxproj == VcxprojInit /\ [][NextVcxproj]_vars

ImportedProject ==
    importCall.op = "importVcxproj" /\ project.loads /\ project.root # Absent

Appended == SubSeq(fileSettings, Len(importCall.before) + 1, Len(fileSettings))

\* the source files, configurations and option groups of the document
FilesOf(doc) == doc.root[1].children[2].children
ConfigurationsOf(doc) ==
    ElementsNamed(doc.root[1].children[1].children, "ProjectConfiguration")
GroupsOf(doc) == ElementsNamed(doc.root[1].children, "ItemDefinitionGroup")

ConfigurationText(cfg) == cfg.children[1].text
PlatformText(cfg) == cfg.children[2].text

\* the condition of a group, as conditionIsTrue reads it
ConditionText(group) == IF group.Condition = Absent THEN << >> ELSE group.Condition[1]

\* C3 as stated: a group without a Condition attribute, or with an empty
\* one, yields a record for every source file and every configuration.
C3_EmptyConditionIsTrue ==
    ImportedProject =>
        \A g \in 1..Len(GroupsOf(project)) :
            ConditionText(GroupsOf(project)[g]) = << >> =>
                Len(Appended) >=
                    Len(FilesOf(project)) * Len(ConfigurationsOf(project))

\* the triples (file, configuration, group) in the order of the loops,
\* numbered from 0, and the ones whose condition holds
TripleCount(doc) ==
    Len(FilesOf(doc)) * Len(ConfigurationsOf(doc)) * Len(GroupsOf(doc))

TripleFile(doc, t) ==
    FilesOf(doc)[(t \div (Len(ConfigurationsOf(doc)) * Len(GroupsOf(doc)))) + 1]
TripleConfiguration(doc, t) ==
    ConfigurationsOf(doc)[((t \div Len(GroupsOf(doc))) % Len(ConfigurationsOf(doc))) + 1]
TripleGroup(doc, t) == GroupsOf(doc)[(t % Len(GroupsOf(doc))) + 1]

Holds(doc, t) ==
    conditionIsTrue(ConditionText(TripleGroup(doc, t)),
                    [configuration |-> ConfigurationText(TripleConfiguration(doc, t)),
                     platform |-> PlatformText(TripleConfiguration(doc, t))])

HoldingTriples(doc) ==
    SortedSeq({t \in 0..(TripleCount(doc) - 1) : Holds(doc, t)})

ExampleProject ==
    ProjectDocument(<<ProjectConfigurationElement(<<"D","e","b","u","g">>, <<"W","i","n","3","2">>),
                      ProjectConfigurationElement(<<"R","e","l","e","a","s","e">>, <<"x","6","4">>)>>,
                    <<ClCompileItem(<<"m","a","i","n",".","c","p","p">>)>>,
                    <<ItemDefinitionGroupElement(Present(sDebugWin32Condition),
                                                 <<"W","I","N","3","2",";","_","D","E","B","U","G">>, <<"a",";","b">>)>>)

\* C4: importVcxproj appends exactly one record for each (file,
\* configuration, group) triple whose condition conditionIsTrue finds true for
\* the configuration, and none for any other; the record carries the group's
\* defines, and the Win32 profile when the configuration's platform is
\* "Win32", the Win64 profile when it is "x64".  The example project yields
\* one record, for Debug/Win32, with the Win32 profile.
C4_OneRecordPerHoldingTriple ==
    ImportedProject =>
        LET hold == HoldingTriples(project) IN
        /\ SubSeq(fileSettings, 1, Len(importCall.before)) = importCall.before
        /\ Len(Appended) = Len(hold)
        /\ \A k \in 1..Len(hold) :
              LET plat == PlatformText(TripleConfiguration(project, hold[k]))
                  group == TripleGroup(project, hold[k])
              IN  /\ Appended[k].defines = group.children[2].children[2].text
                  /\ Appended[k].filename =
                         simplifyPath(getPathFromFilename(sProjectFile)
                                      \o TripleFile(project, hold[k]).Include)
                  /\ plat = <<"W","i","n","3","2">> => Appended[k].platformType = "Win32W"
                  /\ plat = <<"x","6","4">> => Appended[k].platformType = "Win64"
        /\ project = ExampleProject =>
              /\ Len(Appended) = 1
              /\ Appended[1].platformType = "Win32W"
              /\ Appended[1].defines = <<"W","I","N","3","2",";","_","D","E","B","U","G">>

\* the example project was imported after an earlier record
C4_Witness ==
    /\ ImportedProject
    /\ project = ExampleProject
    /\ importCall.before = <<PriorRecord>>
    /\ Len(fileSettings) = 2

----------------------------------------------------------------------------
(* Specification of one conditionIsTrue call, statement by statement: the   *)
(* condition of a group and a ProjectConfiguration read from the project.   *)

\* the longest string the model's std::string holds; insert() beyond it
\* throws std::length_error
MaxStringSize == 48

Conditions ==
    { sDebugWin32Condition,
      <<"'","$","(","C","o","n","f","i","g","u","r","a","t","i","o","n",")","'","=","=","'","R","e","l","e","a","s","e","'">>,
      <<"$","(","P","l","a","t","f","o","r","m",")">>,
      << >>,
      <<"'","$","(","C","o","n","f","i","g","u","r","a","t","i","o","n",")","'","+","'","a","'","=","=","'","D","e","b","u","g","'","+","'","b","'">>,
      <<"'","$","(","P","l","a","t","f","o","r","m",")","'","!","=","'","x","6","4","'">>,
      <<"$","(","C","o","n","f","i","g","u","r","a","t","i","o","n",")","=","=","D","e","b","u","g","|","$","(","P","l","a","t","f","o","r","m",")","=","=","W","i","n","3","2">>,
      <<"'","$","(","C","o","n","f","i","g","u","r","a","t","i","o","n",")","'","=","=","'","$","(","C","o","n","f","i","g","u","r","a","t","i","o","n",")","'">> }

Configurations ==
    { [configuration |-> <<"D","e","b","u","g">>, platform |-> <<"W","i","n","3","2">>],
      [configuration |-> <<"R","e","l","e","a","s","e">>, platform |-> <<"x","6","4">>],
      [configuration |-> <<"D","e","b","u","g">>, platform |-> <<"A","R","M">>],
      [configuration |-> <<"$","(","P","l","a","t","f","o","r","m",")">>, platform |-> <<"x","6","4">>],
      [configuration |-> <<"$","(","C","o","n","f","i","g","u","r","a","t","i","o","n",")">>, platform |-> <<"W","i","n","3","2">>],
      [configuration |-> <<"M","y","$","(","C","o","n","f","i","g","u","r","a","t","i","o","n",")">>, platform |-> <<"W","i","n","3","2">>],
      [configuration |-> <<"D","e","b","u","g">>, platform |-> <<"$","(","P","l","a","t","f","o","r","m",")">>] }

\* lines 414-415
ConditionInit ==
    /\ host = DefaultHost
    /\ platformType = Constructed(host).platformType
    /\ sizeof_bool = Constructed(host).sz.sizeof_bool
    /\ sizeof_short = Constructed(host).sz.sizeof_short
    /\ sizeof_int = Constructed(host).sz.sizeof_int
    /\ sizeof_long = Constructed(host).sz.sizeof_long
    /\ sizeof_long_long = Constructed(host).sz.sizeof_long_long
    /\ sizeof_float = Constructed(host).sz.sizeof_float
    /\ sizeof_double = Constructed(host).sz.sizeof_double
    /\ sizeof_long_double = Constructed(host).sz.sizeof_long_double
    /\ sizeof_wchar_t = Constructed(host).sz.sizeof_wchar_t
    /\ sizeof_size_t = Constructed(host).sz.sizeof_size_t
    /\ sizeof_pointer = Constructed(host).sz.sizeof_pointer
    /\ defaultSign = Constructed(host).defaultSign
    /\ char_bit = Constructed(host).char_bit
    /\ short_bit = Constructed(host).short_bit
    /\ int_bit = Constructed(host).int_bit
    /\ long_bit = Constructed(host).long_bit
    /\ long_long_bit = Constructed(host).long_long_bit
    /\ platformCall = [op |-> "Settings", ret |-> TRUE]
    /\ descriptor = None
    /\ checkInternal = FALSE
    /\ _enabled = {}
    /\ enabledCall = [op |-> None]
    /\ fileSettings = << >>
    /\ importCall = [op |-> None]
    /\ project = [loads |-> FALSE, root |-> << >>]
    /\ command = << >>
    /\ scanned = [op |-> None]
    /\ condition \in Conditions
    /\ p \in Configurations
    /\ c = condition
    /\ pos = 0
    /\ cpc = "whileConfiguration"
    /\ cret = FALSE

condOthers == <<platformVars, enabledVars, importVars, scanVars>>

\* line 416: the test of the first loop
WhileConfiguration ==
    /\ cpc = "whileConfiguration"
    /\ pos' = Find(c, sConfigurationMacro, 0)
    /\ cpc' = IF pos' # npos THEN "replaceConfiguration" ELSE "whilePlatform"
    /\ UNCHANGED <<condition, p, c, cret, condOthers>>

\* lines 417-418: the body of the first loop
ReplaceConfiguration ==
    /\ cpc = "replaceConfiguration"
    /\ IF Len(c) - 16 + Len(p.configuration) > MaxStringSize
       THEN /\ c' = SubSeq(c, 1, pos) \o SubSeq(c, pos + 17, Len(c))
            /\ cpc' = "length_error"
       ELSE /\ c' = EraseInsert(c, pos, 16, p.configuration)
            /\ cpc' = "whileConfiguration"
    /\ UNCHANGED <<condition, p, pos, cret, condOthers>>

\* line 420: the test of the second loop
WhilePlatform ==
    /\ cpc = "whilePlatform"
    /\ pos' = Find(c, sPlatformMacro, 0)
    /\ cpc' = IF pos' # npos THEN "replacePlatform" ELSE "evaluate"
    /\ UNCHANGED <<condition, p, c, cret, condOthers>>

\* lines 421-422: the body of the second loop
ReplacePlatform ==
    /\ cpc = "replacePlatform"
    /\ IF Len(c) - 11 + Len(p.platform) > MaxStringSize
       THEN /\ c' = SubSeq(c, 1, pos) \o SubSeq(c, pos + 12, Len(c))
            /\ cpc' = "length_error"
       ELSE /\ c' = EraseInsert(c, pos, 11, p.platform)
            /\ cpc' = "whilePlatform"
    /\ UNCHANGED <<condition, p, pos, cret, condOthers>>

\* lines 425-434: tokenize, build the tree, look for an "==" and return
Evaluate ==
    /\ cpc = "evaluate"
    /\ cret' = EqualOperandTokens(c)
    /\ cpc' = "returned"
    /\ UNCHANGED <<condition, p, c, pos, condOthers>>

NextCondition ==
    \/ WhileConfiguration
    \/ ReplaceConfiguration
    \/ WhilePlatform
    \/ ReplacePlatform
    \/ Evaluate

SpecCondition == ConditionInit /\ [][NextCondition]_vars

\* lines 425-434 seen from outside: the evaluation ends and returns a value
Returns ==
    /\ cpc = "evaluate"
    /\ cret' \in BOOLEAN
    /\ cpc' = "returned"
    /\ UNCHANGED <<condition, p, c, pos, condOthers>>

\* the two loops, lines 416-423
Loops ==
    \/ WhileConfiguration
    \/ ReplaceConfiguration
    \/ WhilePlatform
    \/ ReplacePlatform

\* the call is one thread of control running to its end: a statement that
\* can be executed is executed (every step of NextCondition is a step of
\* Loops or of Returns, and one of the two is enabled exactly when
\* NextCondition is)
FairSpecCondition == SpecCondition /\ WF_vars(Loops) /\ WF_vars(Returns)

\* whether the tree of the text has an "==" node whose two operand subtrees
\* are the same text
IdenticalOperandSubtrees(text) ==
    LET toks == createTokens(text, 1)
    IN  \E n \in createAst(toks) :
            /\ toks[n.tok] = <<"=","=">>
            /\ SubSeq(toks, n.lo, n.tok - 1) = SubSeq(toks, n.tok + 1, n.hi)

\* C8: conditionIsTrue returns true exactly when the tree of the condition,
\* after the macros are replaced, has an "==" node whose two operand
\* subtrees are textually identical.
C8_TrueIffIdenticalSubtrees ==
    cpc = "returned" => (cret <=> IdenticalOperandSubtrees(c))

\* C10: conditionIsTrue comes to an end for every condition and every
\* configuration: both replacement loops are left.
C10_ConditionIsTrueTerminates == <>(cpc \in {"returned", "length_error"})
====
